---------------------------- MODULE Spec2Model ----------------------------
(***************************************************************************)
(* A model of the DataPantry client (src/src/index.ts): the condition      *)
(* helpers, the four query builders, the thenable execution wrapper and    *)
(* the remote executor DataPantryDatabase.sql.  SQL text is modelled as    *)
(* TLA+ strings, character for character, so that the substring test of    *)
(* where()/orWhere() and the regular expression of count() are computed    *)
(* as the code computes them.                                              *)
(***************************************************************************)
EXTENDS Integers, Sequences, FiniteSets, TLC

VARIABLES
    kind,       \* which builder class was constructed ("none" before)
    table,      \* InsertQueryBuilder.table / UpdateQueryBuilder.table
    query,      \* QueryBuilder.query
    params,     \* QueryBuilder.params
    calls,      \* the constructor and clause calls made on the builder, in order
    invoked,    \* how many execution operations were invoked on the builder
    awaited,    \* how many of them were then, catch or finally
    executed,   \* the (query, parameters) pairs handed to DataPantryDatabase.sql
    result,     \* what the last call on the builder delivered to its caller
    cond,       \* the WhereCondition last returned by a condition helper
    condIn,     \* the arguments that helper was called with
    other,      \* query and params of a second builder instance of the same database
    catalog,    \* the tables, columns and foreign keys of the remote database
    pc,         \* where the running schema() call is
    tables,     \* schema(): const tables
    idx,        \* schema(): the position of the for loop in tables
    tableColumns, \* schema(): const columns of the table at idx
    schema      \* schema(): const schema

vars == <<kind, table, query, params, calls, invoked, awaited, executed, result, cond, condIn,
          other, catalog, pc, tables, idx, tableColumns, schema>>

builderVars == <<kind, table, query, params, calls, invoked, awaited, executed, result>>

condVars == <<cond, condIn>>

schemaVars == <<catalog, pc, tables, idx, tableColumns, schema>>

----------------------------------------------------------------------------
(* Bounds and input sets *)

MaxInLen == 3

Columns == {"x", "y"}

Values == {3, 4, 5}

Patterns == {"a%", "%b"}

ValueLists == UNION {[1..n -> Values] : n \in 0..MaxInLen}

MaxCalls == 3

MaxRowsIn == 2

\* how many rows the remote returns for a statement that succeeds
RowCounts == {0, 2}

Tables == {"T", "SOMEWHERE"}

ColumnLists == {<<>>, <<"x", "y">>}

Directions == {"ASC", "DESC"}

Limits == {10}

Offsets == {5}

JoinTables == {"U"}

JoinConditions == {"T.x = U.x", "U.x IN (SELECT x FROM V)"}

----------------------------------------------------------------------------
(* JavaScript string and array primitives used by the code *)

\* String.prototype.includes
includes(s, sub) ==
    \E i \in 1..(Len(s) - Len(sub) + 1) : SubSeq(s, i, i + Len(sub) - 1) = sub

\* Array.prototype.join
RECURSIVE join(_, _)
join(arr, sep) ==
    IF arr = <<>> THEN ""
    ELSE IF Len(arr) = 1 THEN arr[1]
    ELSE arr[1] \o sep \o join(Tail(arr), sep)

\* arr.map(() => '?')
placeholdersOf(arr) == [i \in 1..Len(arr) |-> "?"]

\* `"${col}"`
quoted(col) == "\"" \o col \o "\""

----------------------------------------------------------------------------
(* WHERE condition helpers *)

eq(column, value) == [sql |-> quoted(column) \o " = ?", params |-> <<value>>]

ne(column, value) == [sql |-> quoted(column) \o " != ?", params |-> <<value>>]

gt(column, value) == [sql |-> quoted(column) \o " > ?", params |-> <<value>>]

gte(column, value) == [sql |-> quoted(column) \o " >= ?", params |-> <<value>>]

lt(column, value) == [sql |-> quoted(column) \o " < ?", params |-> <<value>>]

lte(column, value) == [sql |-> quoted(column) \o " <= ?", params |-> <<value>>]

like(column, pattern) == [sql |-> quoted(column) \o " LIKE ?", params |-> <<pattern>>]

\* inArray emitting one placeholder whatever the number of values
inArray_onePlaceholder(column, values) ==
    [sql |-> quoted(column) \o " IN (?)", params |-> values]

inArray(column, values) ==
    LET placeholders == join(placeholdersOf(values), ", ")
    IN  [sql |-> quoted(column) \o " IN (" \o placeholders \o ")", params |-> values]

CompareOps == {"eq", "ne", "gt", "gte", "lt", "lte"}

compare(op, column, value) ==
    CASE op = "eq" -> eq(column, value)
      [] op = "ne" -> ne(column, value)
      [] op = "gt" -> gt(column, value)
      [] op = "gte" -> gte(column, value)
      [] op = "lt" -> lt(column, value)
      [] op = "lte" -> lte(column, value)

NoCond == [sql |-> "", params |-> <<>>]

NoCondIn == [fn |-> "none", column |-> "", operand |-> <<>>]

----------------------------------------------------------------------------
(* JavaScript objects: an object is its keys in insertion order with the   *)
(* value of each key                                                        *)

\* the value read from a property an object does not have
Undefined == -1

\* Object.keys(obj)
keysOf(obj) == obj.keys

\* obj[col]
get(obj, col) ==
    IF \E i \in 1..Len(obj.keys) : obj.keys[i] = col
    THEN obj.vals[CHOOSE i \in 1..Len(obj.keys) : obj.keys[i] = col]
    ELSE Undefined

RECURSIVE flatten(_)
flatten(seqs) == IF seqs = <<>> THEN <<>> ELSE Head(seqs) \o flatten(Tail(seqs))

RowAt(i) == [keys |-> <<"a", "b">>, vals |-> <<2 * i - 1, 2 * i>>]

OddRow == [keys |-> <<"b">>, vals |-> <<9>>]

SameRows(n) == [i \in 1..n |-> RowAt(i)]

\* the arrays values() is called with (Array.isArray(data) holds)
ArrayInputs ==
    {SameRows(n) : n \in 0..MaxRowsIn}
    \cup {Append(SameRows(n - 1), OddRow) : n \in 1..MaxRowsIn}

\* the single rows values() is called with (Array.isArray(data) does not hold)
ObjectInputs == {RowAt(1)}

\* the arguments set() is called with
SetInputs ==
    { [keys |-> <<>>, vals |-> <<>>],
      [keys |-> <<"x">>, vals |-> <<3>>],
      [keys |-> <<"x", "y">>, vals |-> <<3, 4>>] }

\* the conditions where()/orWhere() of a Select are called with
SelectConds == {eq("x", 3), eq("y", 4)}

\* the conditions where()/orWhere() of an Update or a Delete are called with
Conds == SelectConds \cup {inArray("x", <<3, 4>>)}

----------------------------------------------------------------------------
(* Statement text of each clause *)

\* SelectQueryBuilder constructor
selectSeed(columns) ==
    LET cols == IF Len(columns) = 0 THEN "*" ELSE join(columns, ", ")
    IN  "SELECT " \o cols

\* from() of Select and Delete
fromText(q, t) == q \o " FROM " \o quoted(t)

\* where() without the test for an earlier WHERE
whereText_alwaysWhere(q, condition) == q \o " WHERE " \o condition.sql

\* where() of Select, Update and Delete (the three bodies are the same text)
whereText(q, condition) ==
    IF includes(q, "WHERE")
    THEN q \o " AND " \o condition.sql
    ELSE q \o " WHERE " \o condition.sql

\* orWhere() of Select, Update and Delete
orWhereText(q, condition) ==
    IF includes(q, "WHERE")
    THEN q \o " OR " \o condition.sql
    ELSE q \o " WHERE " \o condition.sql

orderByText(q, column, direction) ==
    q \o " ORDER BY " \o quoted(column) \o " " \o direction

limitText(q, n) == q \o " LIMIT " \o ToString(n)

offsetText(q, n) == q \o " OFFSET " \o ToString(n)

joinText(q, t, condition) == q \o " INNER JOIN " \o quoted(t) \o " ON " \o condition

leftJoinText(q, t, condition) == q \o " LEFT JOIN " \o quoted(t) \o " ON " \o condition

\* the text InsertQueryBuilder.values assigns to this.query
valuesText(t, rows) ==
    LET columns == keysOf(rows[1])
        columnNames == join([i \in 1..Len(columns) |-> quoted(columns[i])], ", ")
        group == "(" \o join(placeholdersOf(columns), ", ") \o ")"
        valuePlaceholders == join([r \in 1..Len(rows) |-> group], ", ")
    IN  "INSERT INTO " \o quoted(t) \o " (" \o columnNames \o ") VALUES " \o valuePlaceholders

\* values() pushing column by column instead of row by row
valuesParams_columnMajor(rows) ==
    LET columns == keysOf(rows[1])
    IN  flatten([c \in 1..Len(columns) |-> [r \in 1..Len(rows) |-> get(rows[r], columns[c])]])

\* the values InsertQueryBuilder.values pushes onto this.params
valuesParams(rows) ==
    LET columns == keysOf(rows[1])
    IN  flatten([r \in 1..Len(rows) |-> [c \in 1..Len(columns) |-> get(rows[r], columns[c])]])

updateSeed(t) == "UPDATE " \o quoted(t)

setText(q, data) ==
    LET columns == keysOf(data)
        setClause == join([i \in 1..Len(columns) |-> quoted(columns[i]) \o " = ?"], ", ")
    IN  q \o " SET " \o setClause

setParams(data) ==
    LET columns == keysOf(data)
    IN  [i \in 1..Len(columns) |-> get(data, columns[i])]

deleteSeed == "DELETE"

\* the replace() call of count(): its pattern is SELECT, a space, any run of characters (greedy), a space, FROM;
\* the leftmost "SELECT " that a later " FROM" follows, up to the last " FROM"
countQueryOf(q) ==
    LET ends(i) == {j \in (i + 7)..(Len(q) - 4) : SubSeq(q, j, j + 4) = " FROM"}
        starts == {i \in 1..(Len(q) - 6) : SubSeq(q, i, i + 6) = "SELECT " /\ ends(i) # {}}
    IN  IF starts = {} THEN q
        ELSE LET i == CHOOSE a \in starts : \A b \in starts : a <= b
                 j == CHOOSE a \in ends(i) : \A b \in ends(i) : b <= a
             IN  SubSeq(q, 1, i - 1) \o "SELECT COUNT(*) as count FROM"
                    \o SubSeq(q, j + 5, Len(q))


----------------------------------------------------------------------------
(* The remote database that schema() introspects: its tables in the order   *)
(* sqlite_master lists them, each with the rows PRAGMA table_info and       *)
(* PRAGMA foreign_key_list return for it                                    *)

ColumnRow(n, t, nn, p) == [name |-> n, type |-> t, notnull |-> nn, pk |-> p]

ForeignKeyRow(f, t, c) == [from |-> f, table |-> t, to |-> c]

TableEntry(n, cols, fks) == [name |-> n, columns |-> cols, foreignKeys |-> fks]

\* the declared types of the columns
Types == {"INTEGER", "integer", "POINT", "REAL", "real", "DOUBLE", "TEXT", ""}

\* the notnull flags PRAGMA table_info reports
NotNullFlags == {0, 1}

\* the pk values PRAGMA table_info reports: 0, or the position in the primary key
PkValues == {0, 1, 2}

\* the foreign key rows of a table with a column x
ForeignKeyLists ==
    { <<>>,
      <<ForeignKeyRow("x", "P", "id")>>,
      <<ForeignKeyRow("y", "Q", "k"), ForeignKeyRow("x", "P", "id"), ForeignKeyRow("x", "Q", "k")>> }

\* the table of the test: Pixels (id integer primary key not null, x, y, color)
Pixels ==
    TableEntry("Pixels",
               << ColumnRow("id", "INTEGER", 1, 1),
                  ColumnRow("x", "INTEGER", 0, 0),
                  ColumnRow("y", "INTEGER", 0, 0),
                  ColumnRow("color", "TEXT", 0, 0) >>,
               <<>>)

Tags ==
    TableEntry("Tags",
               << ColumnRow("id", "INTEGER", 1, 1),
                  ColumnRow("pixel", "INTEGER", 1, 0),
                  ColumnRow("label", "TEXT", 0, 0) >>,
               << ForeignKeyRow("pixel", "Pixels", "id") >>)

NoTables == <<>>

Catalogs ==
    { NoTables, <<Pixels>>, <<Pixels, Tags>>, <<Tags, Pixels>> }
    \cup { <<TableEntry("A", <<ColumnRow("x", t, nn, p)>>, fks)>> :
             t \in Types, nn \in NotNullFlags, p \in PkValues, fks \in ForeignKeyLists }

\* the entry of the table called n
EntryOf(cat, n) == cat[CHOOSE i \in 1..Len(cat) : cat[i].name = n]

\* the template literal of schema(), with its line breaks and indentation
TablesQuery ==
    "\n      SELECT name FROM sqlite_master \n      WHERE type='table' AND name NOT LIKE 'sqlite_%'\n    "

columnsQuery(n) == "PRAGMA table_info(" \o quoted(n) \o ")"

foreignKeysQuery(n) == "PRAGMA foreign_key_list(" \o quoted(n) \o ")"

\* the rows the remote returns for TablesQuery
tableRows(cat) == [i \in 1..Len(cat) |-> [name |-> cat[i].name]]

----------------------------------------------------------------------------
(* schema(): the mapping of one table *)

LowerCase == "abcdefghijklmnopqrstuvwxyz"

UpperCase == "ABCDEFGHIJKLMNOPQRSTUVWXYZ"

\* String.prototype.toUpperCase
RECURSIVE toUpperCase(_)
toUpperCase(s) ==
    IF s = "" THEN ""
    ELSE LET c == SubSeq(s, 1, 1)
             at == {i \in 1..Len(LowerCase) : SubSeq(LowerCase, i, i) = c}
             u == IF at = {} THEN c
                  ELSE LET i == CHOOSE i \in at : TRUE IN SubSeq(UpperCase, i, i)
         IN  u \o toUpperCase(SubSeq(s, 2, Len(s)))

\* mapSQLiteType without the REAL case
mapSQLiteType_realIsString(sqliteType) ==
    IF includes(toUpperCase(sqliteType), "INT") THEN "number" ELSE "string"

mapSQLiteType(sqliteType) ==
    LET upper == toUpperCase(sqliteType)
    IN  IF includes(upper, "INT") THEN "number"
        ELSE IF upper = "REAL" THEN "number"
        ELSE IF upper = "TEXT" THEN "string"
        ELSE "string"

\* the value of findForeignKey when no row matches
Null == [t |-> "null"]

\* findForeignKey taking the last matching row
findForeignKey_last(columnName, foreignKeys) ==
    LET at == {k \in 1..Len(foreignKeys) : foreignKeys[k].from = columnName}
    IN  IF at = {} THEN Null
        ELSE LET k == CHOOSE a \in at : \A b \in at : b <= a
             IN  [tableName |-> foreignKeys[k].table, columnName |-> foreignKeys[k].to]

\* foreignKeys.find(fk => fk.from === columnName)
findForeignKey(columnName, foreignKeys) ==
    LET at == {k \in 1..Len(foreignKeys) : foreignKeys[k].from = columnName}
    IN  IF at = {} THEN Null
        ELSE LET k == CHOOSE a \in at : \A b \in at : a <= b
             IN  [tableName |-> foreignKeys[k].table, columnName |-> foreignKeys[k].to]

\* one element of columns.map(col => ...)
columnSchema(col, foreignKeys) ==
    [ name |-> col.name,
      datatype |-> mapSQLiteType(col.type),
      constraint |-> IF col.pk # 0 THEN "primary"
                     ELSE IF col.notnull # 0 THEN "unique" ELSE "none",
      isRequired |-> (col.notnull = 1),
      foreignKey |-> findForeignKey(col.name, foreignKeys) ]

\* const tableSchema
tableSchema(n, cols, foreignKeys) ==
    [ name |-> n,
      columns |-> [c \in 1..Len(cols) |-> columnSchema(cols[c], foreignKeys)] ]

----------------------------------------------------------------------------
(* The state before any builder was constructed *)

InitBuilder ==
    /\ kind = "none"
    /\ table = ""
    /\ query = ""
    /\ params = <<>>
    /\ calls = <<>>
    /\ invoked = 0
    /\ awaited = 0
    /\ executed = <<>>
    /\ result = [op |-> "none"]

InitCond ==
    /\ cond = NoCond
    /\ condIn = NoCondIn

NoOther == [kind |-> "none", query |-> "", params |-> <<>>, n |-> 0]

InitOther == other = NoOther

\* no schema() call is running
InitIdle ==
    /\ pc = "idle"
    /\ tables = <<>>
    /\ idx = 0
    /\ tableColumns = <<>>
    /\ schema = [tables |-> <<>>]

Init == InitBuilder /\ InitCond /\ InitOther /\ InitIdle /\ catalog = NoTables

----------------------------------------------------------------------------
(* DataPantryDatabase.sql: the remote either fails (response.ok is false)   *)
(* or returns data.result, a sequence of rows.  The remote answers          *)
(* a counting statement with one row holding the count and any other        *)
(* statement with the rows it selects.                                      *)

CountPrefix == "SELECT COUNT(*) as count FROM"

isCountQuery(q) == Len(q) >= Len(CountPrefix) /\ SubSeq(q, 1, Len(CountPrefix)) = CountPrefix

Failure == [ok |-> FALSE, rows |-> <<>>]

Responses(q) ==
    {Failure} \cup
    { [ok |-> TRUE,
       rows |-> IF isCountQuery(q) THEN <<[count |-> n]>> ELSE [i \in 1..n |-> [id |-> i]]]
      : n \in RowCounts }

\* one call of sql(query, ...params) as the remote sees it
sqlCall(q, ps) == [query |-> q, params |-> ps]

\* the values an execution operation delivers
Rows(rows) == [t |-> "rows", rows |-> rows]

Row(row) == [t |-> "row", row |-> row]

UndefinedValue == [t |-> "undefined"]

Number(n) == [t |-> "number", n |-> n]

QueryFailed == [t |-> "Error", message |-> "Query failed"]

TypeError == [t |-> "TypeError"]

\* return this
This == [t |-> "this"]

returned(m) == [op |-> m, status |-> "returned", value |-> This]

\* a failure of sql() swallowed: delivered as an empty result
settled_swallowed(op, resp) ==
    [op |-> op, status |-> "fulfilled", value |-> Rows(resp.rows), received |-> resp]

\* await this.db.sql(...): the rows received, or the Error sql() throws
settled(op, resp) ==
    IF resp.ok
    THEN [op |-> op, status |-> "fulfilled", value |-> Rows(resp.rows), received |-> resp]
    ELSE [op |-> op, status |-> "rejected", value |-> QueryFailed, received |-> resp]

\* results[0] without the || null
firstOf_noNull(results) == IF Len(results) > 0 THEN Row(results[1]) ELSE UndefinedValue

\* results[0] || null
firstOf(results) == IF Len(results) > 0 THEN Row(results[1]) ELSE Null

\* result[0].count: a TypeError when there is no row, undefined when the row
\* has no count field
countOf(op, resp) ==
    LET rows == resp.rows
    IN  IF Len(rows) = 0
        THEN [op |-> op, status |-> "rejected", value |-> TypeError, received |-> resp]
        ELSE IF "count" \in DOMAIN rows[1]
        THEN [op |-> op, status |-> "fulfilled", value |-> Number(rows[1].count), received |-> resp]
        ELSE [op |-> op, status |-> "fulfilled", value |-> UndefinedValue, received |-> resp]

\* one entry of the record of the calls made on the builder
Call(m, a, v) == [m |-> m, a |-> a, v |-> v]

\* the calls made so far on the two builder instances stay within MaxCalls
CanCall == Len(calls) + invoked + other.n <= MaxCalls

----------------------------------------------------------------------------
(* Query builder entry points *)

DbSelect ==
    \E columns \in ColumnLists :
        /\ kind = "none"
        /\ kind' = "select"
        /\ query' = selectSeed(columns)
        /\ calls' = <<Call("select", join(columns, ", "), <<>>)>>
        /\ result' = returned("select")
        /\ UNCHANGED <<table, params, invoked, awaited, executed, condVars, schemaVars, other>>

DbInsert ==
    \E t \in Tables :
        /\ kind = "none"
        /\ kind' = "insert"
        /\ table' = t
        /\ calls' = <<Call("insert", t, <<>>)>>
        /\ result' = returned("insert")
        /\ UNCHANGED <<query, params, invoked, awaited, executed, condVars, schemaVars, other>>

DbUpdate ==
    \E t \in Tables :
        /\ kind = "none"
        /\ kind' = "update"
        /\ table' = t
        /\ query' = updateSeed(t)
        /\ calls' = <<Call("update", t, <<>>)>>
        /\ result' = returned("update")
        /\ UNCHANGED <<params, invoked, awaited, executed, condVars, schemaVars, other>>

DbDelete ==
    /\ kind = "none"
    /\ kind' = "delete"
    /\ query' = deleteSeed
    /\ calls' = <<Call("delete", "", <<>>)>>
    /\ result' = returned("delete")
    /\ UNCHANGED <<table, params, invoked, awaited, executed, condVars, schemaVars, other>>

----------------------------------------------------------------------------
(* Clause methods *)

\* a clause that also sends the statement built so far to sql()
Clause_executing(k, m, a, v, q, ps) ==
    /\ kind = k
    /\ CanCall
    /\ query' = q
    /\ params' = ps
    /\ calls' = Append(calls, Call(m, a, v))
    /\ result' = returned(m)
    /\ executed' = Append(executed, sqlCall(q, ps))
    /\ UNCHANGED <<kind, table, invoked, awaited, condVars, schemaVars, other>>

\* a clause that appends text and bound values and returns this
Clause(k, m, a, v, q, ps) ==
    /\ kind = k
    /\ CanCall
    /\ query' = q
    /\ params' = ps
    /\ calls' = Append(calls, Call(m, a, v))
    /\ result' = returned(m)
    /\ UNCHANGED <<kind, table, invoked, awaited, executed, condVars, schemaVars, other>>

SelectFrom ==
    \E t \in Tables :
        Clause("select", "from", t, <<>>, fromText(query, t), params)

SelectWhere ==
    \E c \in SelectConds :
        Clause("select", "where", c.sql, c.params, whereText(query, c), params \o c.params)

SelectOrWhere ==
    \E c \in SelectConds :
        Clause("select", "orWhere", c.sql, c.params, orWhereText(query, c), params \o c.params)

SelectOrderBy ==
    \E column \in {"x"}, direction \in Directions :
        Clause("select", "orderBy", column \o " " \o direction, <<>>,
               orderByText(query, column, direction), params)

SelectLimit ==
    \E n \in Limits :
        Clause("select", "limit", "", <<n>>, limitText(query, n), params)

SelectOffset ==
    \E n \in Offsets :
        Clause("select", "offset", "", <<n>>, offsetText(query, n), params)

SelectJoin ==
    \E t \in JoinTables, c \in JoinConditions :
        Clause("select", "join", t \o " ON " \o c, <<>>, joinText(query, t, c), params)

SelectLeftJoin ==
    \E t \in JoinTables, c \in JoinConditions :
        Clause("select", "leftJoin", t \o " ON " \o c, <<>>, leftJoinText(query, t, c), params)

\* values(data) with rows = Array.isArray(data) ? data : [data]; Object.keys(rows[0])
\* throws a TypeError when rows is empty, before anything is assigned
values(rows, isArray) ==
    /\ kind = "insert"
    /\ CanCall
    /\ calls' = Append(calls, [m |-> "values", a |-> IF isArray THEN "array" ELSE "object",
                               v |-> <<>>, rows |-> rows])
    /\ IF Len(rows) = 0
       THEN /\ result' = [op |-> "values", status |-> "thrown", value |-> TypeError]
            /\ UNCHANGED <<query, params>>
       ELSE /\ query' = valuesText(table, rows)
            /\ params' = params \o valuesParams(rows)
            /\ result' = returned("values")
    /\ UNCHANGED <<kind, table, invoked, awaited, executed, condVars, schemaVars, other>>

InsertValues ==
    \/ \E data \in ArrayInputs : values(data, TRUE)
    \/ \E data \in ObjectInputs : values(<<data>>, FALSE)

UpdateSet ==
    \E data \in SetInputs :
        Clause("update", "set", join(keysOf(data), ", "), data.vals,
               setText(query, data), params \o setParams(data))

UpdateWhere ==
    \E c \in Conds :
        Clause("update", "where", c.sql, c.params, whereText(query, c), params \o c.params)

UpdateOrWhere ==
    \E c \in Conds :
        Clause("update", "orWhere", c.sql, c.params, orWhereText(query, c), params \o c.params)

DeleteFrom ==
    \E t \in Tables :
        Clause("delete", "from", t, <<>>, fromText(query, t), params)

DeleteWhere ==
    \E c \in Conds :
        Clause("delete", "where", c.sql, c.params, whereText(query, c), params \o c.params)

DeleteOrWhere ==
    \E c \in Conds :
        Clause("delete", "orWhere", c.sql, c.params, orWhereText(query, c), params \o c.params)

----------------------------------------------------------------------------
(* Execution operations *)

\* an execution that empties the params of the builder it ran
Execution_consuming(q, r) ==
    /\ kind # "none"
    /\ CanCall
    /\ executed' = Append(executed, sqlCall(q, params))
    /\ result' = r
    /\ invoked' = invoked + 1
    /\ params' = <<>>
    /\ UNCHANGED <<kind, table, query, calls, condVars, schemaVars, other>>

\* an operation that calls sql(q, ...params) once and delivers r
Execution(q, r) ==
    /\ kind # "none"
    /\ CanCall
    /\ executed' = Append(executed, sqlCall(q, params))
    /\ result' = r
    /\ invoked' = invoked + 1
    /\ UNCHANGED <<kind, table, query, params, calls, condVars, schemaVars, other>>

\* execute() guarded against a second execution: only the first call reaches sql()
execute_guarded(op) ==
    \E resp \in Responses(query) :
        /\ awaited' = awaited + 1
        /\ IF executed = <<>>
           THEN Execution(query, settled(op, resp))
           ELSE /\ kind # "none"
                /\ CanCall
                /\ result' = settled(op, resp)
                /\ invoked' = invoked + 1
                /\ UNCHANGED <<kind, table, query, params, calls, executed, condVars, schemaVars, other>>

\* execute(): await this.db.sql(this.query, ...this.params)
execute(op) ==
    \E resp \in Responses(query) :
        /\ Execution(query, settled(op, resp))
        /\ awaited' = awaited + 1

\* then(resolve, reject): this.execute().then(resolve, reject)
Then == execute("then")

\* catch(reject): this.execute().catch(reject)
Catch == execute("catch")

\* finally(callback): this.execute().finally(callback)
Finally == execute("finally")

First ==
    /\ kind = "select"
    /\ UNCHANGED awaited
    /\ \E resp \in Responses(query) :
          Execution(query,
                    IF resp.ok
                    THEN [settled("first", resp) EXCEPT !.value = firstOf(resp.rows)]
                    ELSE settled("first", resp))

Count ==
    /\ kind = "select"
    /\ UNCHANGED awaited
    /\ LET countQuery == countQueryOf(query)
       IN  \E resp \in Responses(countQuery) :
              Execution(countQuery,
                        IF resp.ok
                        THEN countOf("count", resp)
                        ELSE settled("count", resp))

----------------------------------------------------------------------------
(* A second builder instance made by the same database: a DeleteQueryBuilder *)
(* with its own query and params                                             *)

OtherTables == {"T"}

OtherConds == {eq("y", 4)}

\* db.delete() called again: new DeleteQueryBuilder(this)
OtherDelete ==
    /\ other.kind = "none"
    /\ CanCall
    /\ other' = [kind |-> "delete", query |-> deleteSeed, params |-> <<>>, n |-> 1]
    /\ UNCHANGED <<builderVars, condVars, schemaVars>>

\* from(table) on the second instance
OtherFrom ==
    \E t \in OtherTables :
        /\ other.kind = "delete"
        /\ CanCall
        /\ other' = [other EXCEPT !.query = fromText(@, t), !.n = @ + 1]
        /\ UNCHANGED <<builderVars, condVars, schemaVars>>

\* where(condition) on the second instance
OtherWhere ==
    \E c \in OtherConds :
        /\ other.kind = "delete"
        /\ CanCall
        /\ other' = [other EXCEPT !.query = whereText(@, c),
                                  !.params = @ \o c.params,
                                  !.n = @ + 1]
        /\ UNCHANGED <<builderVars, condVars, schemaVars>>

Next ==
    \/ DbSelect \/ DbInsert \/ DbUpdate \/ DbDelete
    \/ OtherDelete \/ OtherFrom \/ OtherWhere
    \/ SelectFrom \/ SelectWhere \/ SelectOrWhere \/ SelectOrderBy
    \/ SelectLimit \/ SelectOffset \/ SelectJoin \/ SelectLeftJoin
    \/ InsertValues
    \/ UpdateSet \/ UpdateWhere \/ UpdateOrWhere
    \/ DeleteFrom \/ DeleteWhere \/ DeleteOrWhere
    \/ Then \/ Catch \/ Finally \/ First \/ Count

Spec == Init /\ [][Next]_vars


----------------------------------------------------------------------------
(* Calls of the condition helpers *)

CallCompare ==
    \E op \in CompareOps, c \in Columns, v \in Values :
        /\ cond' = compare(op, c, v)
        /\ condIn' = [fn |-> op, column |-> c, operand |-> <<v>>]
        /\ UNCHANGED <<builderVars, schemaVars, other>>

CallLike ==
    \E c \in Columns, p \in Patterns :
        /\ cond' = like(c, p)
        /\ condIn' = [fn |-> "like", column |-> c, operand |-> <<p>>]
        /\ UNCHANGED <<builderVars, schemaVars, other>>

CallInArray ==
    \E c \in Columns, vs \in ValueLists :
        /\ cond' = inArray(c, vs)
        /\ condIn' = [fn |-> "inArray", column |-> c, operand |-> vs]
        /\ UNCHANGED <<builderVars, schemaVars, other>>

NextCond == CallCompare \/ CallLike \/ CallInArray

SpecCond == Init /\ [][NextCond]_vars

----------------------------------------------------------------------------
(* The caller of inArray(column, values) keeps the array it passed, and the *)
(* condition returned holds that same array as its params (params: values)  *)

\* values.push(v) by the caller, after the call of inArray
CallerPush ==
    \E v \in Values :
        /\ condIn.fn = "inArray"
        /\ Len(cond.params) <= MaxInLen
        /\ cond' = [cond EXCEPT !.params = Append(@, v)]
        /\ UNCHANGED <<condIn, builderVars, schemaVars, other>>

NextAlias == CallCompare \/ CallLike \/ CallInArray \/ CallerPush

SpecAlias == Init /\ [][NextAlias]_vars

----------------------------------------------------------------------------
(* DataPantryDatabase.schema(): one action for each await of this.sql(...)  *)

InitSchema ==
    /\ InitBuilder /\ InitCond /\ InitOther /\ InitIdle
    /\ catalog \in Catalogs

\* what sql() gets for a statement the remote would answer with rows
Answers(rows) == {Failure, [ok |-> TRUE, rows |-> rows]}

\* a failed call answered by returning the schema built so far
SchemaFail_partial(resp) ==
    /\ pc' = "done"
    /\ result' = [op |-> "schema", status |-> "fulfilled", value |-> schema]
    /\ UNCHANGED <<tables, idx, tableColumns, schema>>

\* sql() throws inside schema(): the Error leaves schema() at once
SchemaFail(resp) ==
    /\ pc' = "failed"
    /\ result' = settled("schema", resp)
    /\ UNCHANGED <<tables, idx, tableColumns, schema>>

\* const tables = await this.sql(TablesQuery); const schema = { tables: [] }
SchemaTables ==
    /\ pc = "idle"
    /\ executed' = Append(executed, sqlCall(TablesQuery, <<>>))
    /\ \E resp \in Answers(tableRows(catalog)) :
          IF resp.ok
          THEN /\ tables' = resp.rows
               /\ schema' = [tables |-> <<>>]
               /\ idx' = 1
               /\ pc' = IF Len(resp.rows) = 0 THEN "return" ELSE "columns"
               /\ UNCHANGED <<tableColumns, result>>
          ELSE SchemaFail(resp)
    /\ UNCHANGED <<kind, table, query, params, calls, invoked, awaited, condVars, other, catalog>>

\* const columns = await this.sql(`PRAGMA table_info("${name}")`)
SchemaColumns ==
    /\ pc = "columns"
    /\ LET name == tables[idx].name
       IN  /\ executed' = Append(executed, sqlCall(columnsQuery(name), <<>>))
           /\ \E resp \in Answers(EntryOf(catalog, name).columns) :
                 IF resp.ok
                 THEN /\ tableColumns' = resp.rows
                      /\ pc' = "foreignKeys"
                      /\ UNCHANGED <<tables, idx, schema, result>>
                 ELSE SchemaFail(resp)
    /\ UNCHANGED <<kind, table, query, params, calls, invoked, awaited, condVars, other, catalog>>

\* const foreignKeys = await this.sql(`PRAGMA foreign_key_list("${name}")`);
\* schema.tables.push(tableSchema); the loop moves to the next table
SchemaForeignKeys ==
    /\ pc = "foreignKeys"
    /\ LET name == tables[idx].name
       IN  /\ executed' = Append(executed, sqlCall(foreignKeysQuery(name), <<>>))
           /\ \E resp \in Answers(EntryOf(catalog, name).foreignKeys) :
                 IF resp.ok
                 THEN /\ schema' = [tables |-> Append(schema.tables,
                                                     tableSchema(name, tableColumns, resp.rows))]
                      /\ idx' = idx + 1
                      /\ tableColumns' = <<>>
                      /\ pc' = IF idx = Len(tables) THEN "return" ELSE "columns"
                      /\ UNCHANGED <<tables, result>>
                 ELSE SchemaFail(resp)
    /\ UNCHANGED <<kind, table, query, params, calls, invoked, awaited, condVars, other, catalog>>

\* return schema
SchemaReturn ==
    /\ pc = "return"
    /\ pc' = "done"
    /\ result' = [op |-> "schema", status |-> "fulfilled", value |-> schema]
    /\ UNCHANGED <<kind, table, query, params, calls, invoked, awaited, executed,
                   condVars, other, catalog, tables, idx, tableColumns, schema>>

NextSchema == SchemaTables \/ SchemaColumns \/ SchemaForeignKeys \/ SchemaReturn

SpecSchema == InitSchema /\ [][NextSchema]_vars

----------------------------------------------------------------------------
(* Vocabulary of the properties *)

\* the number of occurrences of sub in s
Occurrences(s, sub) ==
    Cardinality({i \in 1..(Len(s) - Len(sub) + 1) : SubSeq(s, i, i + Len(sub) - 1) = sub})

\* the number of ? placeholders of a statement text or fragment
Placeholders(s) == Occurrences(s, "?")

\* the number of WHERE keywords of a statement text
WhereTokens(s) == Occurrences(s, " WHERE ")

\* the positions of the calls of the methods ms in the chain
CallsOf(ms) == {i \in 1..Len(calls) : calls[i].m \in ms}

Thenables == {"then", "catch", "finally"}

LastExecuted == executed[Len(executed)]

\* all rows have the keys of the first row, in the same order
SameColumns(rows) == \A r \in 1..Len(rows) : rows[r].keys = rows[1].keys

----------------------------------------------------------------------------
(* C1 *)

\* C1 as stated: whatever number of then/catch/finally invocations is made on
\* a builder, the Executor receives its statement exactly once in total.
C1_ExecutedExactlyOnce ==
    (awaited >= 1 /\ invoked = awaited) => Len(executed) = 1

\* C1 as amended: each then/catch/finally invocation on a builder makes exactly
\* one Executor call, carrying the builder's query and params as they are at
\* that invocation, and leaves the builder unchanged; a repeated invocation
\* executes the statement again.
C1_OneCallPerInvocation ==
    [][(awaited' = awaited + 1) =>
          /\ executed' = Append(executed, sqlCall(query, params))
          /\ query' = query /\ params' = params]_vars

C1_Witness ==
    /\ awaited = 2 /\ invoked = 2
    /\ Len(executed) = 2 /\ executed[1] = executed[2]
    /\ params # <<>>

----------------------------------------------------------------------------
(* C2 *)

\* C2: in every state of every statement kind the number of ? placeholders of
\* query equals the length of params.
C2_PlaceholdersMatchParams == Placeholders(query) = Len(params)

----------------------------------------------------------------------------
(* C3 *)

\* C3: once where or orWhere was called on a Select, Update or Delete, the
\* statement text contains exactly one WHERE keyword.
C3_ExactlyOneWhere ==
    (kind \in {"select", "update", "delete"} /\ CallsOf({"where", "orWhere"}) # {})
        => WhereTokens(query) = 1

----------------------------------------------------------------------------
(* C4 *)

C4_Chain ==
    << Call("select", "x, y", <<>>),
       Call("from", "T", <<>>),
       Call("where", "\"x\" = ?", <<3>>),
       Call("where", "\"y\" = ?", <<4>>) >>

\* C4: select('x','y').from('T').where(eq('x',3)).where(eq('y',4)) ends with the
\* text SELECT x, y FROM "T" WHERE "x" = ? AND "y" = ? and the params [3, 4].
C4_RoundTrip ==
    (kind = "select" /\ calls = C4_Chain) =>
        /\ query = "SELECT x, y FROM \"T\" WHERE \"x\" = ? AND \"y\" = ?"
        /\ params = <<3, 4>>

C4_Witness == kind = "select" /\ calls = C4_Chain /\ Len(params) = 2

----------------------------------------------------------------------------
(* C5 *)

\* the statement C5 expects for n rows of the columns cols of table t
C5_Expected(t, cols, n) ==
    LET names == join([c \in 1..Len(cols) |-> "\"" \o cols[c] \o "\""], ", ")
        group == "(" \o join([c \in 1..Len(cols) |-> "?"], ", ") \o ")"
    IN  "INSERT INTO \"" \o t \o "\" (" \o names \o ") VALUES "
            \o join([r \in 1..n |-> group], ", ")

\* the chain insert(t).values(rows) with at least one row, all of the same columns
C5_Case ==
    /\ kind = "insert"
    /\ Len(calls) = 2
    /\ calls[2].m = "values"
    /\ Len(calls[2].rows) >= 1
    /\ SameColumns(calls[2].rows)

\* C5: insert(T).values(rows) with N >= 1 rows of the same K columns gives one
\* INSERT with the K quoted column names and N groups of K placeholders, and
\* params holds the N*K values row by row; the two rows {a:1,b:2},{a:3,b:4}
\* give INSERT INTO "T" ("a", "b") VALUES (?, ?), (?, ?) with [1,2,3,4].
C5_MultiRowInsert ==
    C5_Case =>
        LET rows == calls[2].rows
            cols == rows[1].keys
            N == Len(rows)
            K == Len(cols)
        IN  /\ query = C5_Expected(table, cols, N)
            /\ Placeholders(query) = N * K
            /\ Len(params) = N * K
            /\ \A r \in 1..N, c \in 1..K : params[(r - 1) * K + c] = rows[r].vals[c]
            /\ (table = "T" /\ rows = SameRows(2)) =>
                  /\ query = "INSERT INTO \"T\" (\"a\", \"b\") VALUES (?, ?), (?, ?)"
                  /\ params = <<1, 2, 3, 4>>

C5_Witness ==
    /\ C5_Case
    /\ table = "T"
    /\ calls[2].rows = SameRows(2)
    /\ params = <<1, 2, 3, 4>>

----------------------------------------------------------------------------
(* C6 *)

\* a Select built as seed, from(table), then clauses other than from, on which
\* count() was just called
C6_Case ==
    /\ kind = "select"
    /\ result.op = "count"
    /\ Len(calls) >= 2
    /\ calls[2].m = "from"
    /\ \A i \in 3..Len(calls) : calls[i].m # "from"

\* C6: count() hands the Executor the statement with only its leading
\* SELECT <cols> FROM replaced by the counting prefix, every later clause
\* unchanged, with the same params, and returns the count field of the row.
C6_CountReplacesPrefixOnly ==
    C6_Case =>
        LET seed == IF calls[1].a = "" THEN "SELECT *" ELSE "SELECT " \o calls[1].a
            prefix == seed \o " FROM"
        IN  /\ LastExecuted.query = CountPrefix \o SubSeq(query, Len(prefix) + 1, Len(query))
            /\ LastExecuted.params = params
            /\ result.received.ok =>
                  /\ result.status = "fulfilled"
                  /\ result.value = Number(result.received.rows[1].count)

----------------------------------------------------------------------------
(* C7 *)

\* C7: count() on a Select whose text holds no SELECT ... FROM (from() was never
\* called) fails with a MalformedStatement error and issues no statement.
C7_CountWithoutFromIsMalformed ==
    (kind = "select" /\ result.op = "count" /\ ~includes(query, " FROM")) =>
        /\ result.status = "rejected"
        /\ result.value.t = "MalformedStatement"
        /\ Len(executed) < invoked

----------------------------------------------------------------------------
(* C8 *)

\* C8: first() makes one Executor call with the builder's query and params and
\* returns the first row received, or null when no row was received; an empty
\* result is neither an error nor undefined.
C8_FirstRowOrNull ==
    (result.op = "first") =>
        /\ Len(executed) = invoked
        /\ LastExecuted = sqlCall(query, params)
        /\ result.received.ok =>
              /\ result.status = "fulfilled"
              /\ result.value # UndefinedValue
              /\ result.value =
                    IF result.received.rows = <<>> THEN Null
                    ELSE Row(result.received.rows[1])

C8_Witness ==
    /\ result.op = "first"
    /\ result.received.ok
    /\ result.received.rows = <<>>
    /\ result.value = Null
    /\ params # <<>>

----------------------------------------------------------------------------
(* C9 *)

\* C9: inArray with an empty value sequence gives a fragment that matches no
\* row, with no bound values, and never the fragment "col" IN ().
C9_EmptyInArrayMatchesNothing ==
    (condIn.fn = "inArray" /\ Len(condIn.operand) = 0) =>
        /\ ~includes(cond.sql, "IN ()")
        /\ cond.params = <<>>

----------------------------------------------------------------------------
(* C10 *)

\* C10: every condition helper returns as many ? placeholders as bound values,
\* the bound values being the operands in input order; inArray with n elements
\* returns n placeholders.
C10_ConditionPlaceholders ==
    (condIn.fn # "none") =>
        /\ Placeholders(cond.sql) = Len(cond.params)
        /\ cond.params = condIn.operand
        /\ (condIn.fn = "inArray") => Placeholders(cond.sql) = Len(condIn.operand)
        /\ (condIn.fn # "inArray") => Len(cond.params) = 1

C10_Witness ==
    /\ condIn.fn = "inArray"
    /\ Len(condIn.operand) = MaxInLen
    /\ Placeholders(cond.sql) = MaxInLen

----------------------------------------------------------------------------
(* C11 *)

\* the step is a call of values() with zero rows
C11_Step ==
    /\ Len(calls') = Len(calls) + 1
    /\ calls'[Len(calls')].m = "values"
    /\ Len(calls'[Len(calls')].rows) = 0

\* C11: values() called with zero rows fails at the call with a
\* MalformedStatement error, leaves query and params as they were and makes no
\* Executor call.
C11_EmptyValuesIsMalformed ==
    [][C11_Step =>
          /\ result'.status = "thrown"
          /\ result'.value.t = "MalformedStatement"
          /\ query' = query /\ params' = params
          /\ executed' = executed]_vars

----------------------------------------------------------------------------
(* C12 *)

ExecutionOps == {"then", "catch", "finally", "first", "count"}

\* C12: one execution operation (then, catch, finally, first, count) makes
\* exactly one Executor call, whether the call succeeds or fails, and a failed
\* call is delivered to the caller as the failure of the operation: it is not
\* swallowed and the call is not repeated.
C12_OneCallFailureDelivered ==
    [][(invoked' = invoked + 1) =>
          /\ result'.op \in ExecutionOps
          /\ Len(executed') = Len(executed) + 1
          /\ (~result'.received.ok) =>
                /\ result'.status = "rejected"
                /\ result'.value = QueryFailed]_vars

C12_Witness ==
    /\ result.op = "count"
    /\ ~result.received.ok
    /\ result.status = "rejected"
    /\ invoked = 2
    /\ Len(executed) = 2

----------------------------------------------------------------------------
(* C13 *)

\* the declared types C13 maps to number: those containing INT and REAL, in
\* either case of the letters
C13_NumberTypes == {"INTEGER", "integer", "POINT", "REAL", "real"}

\* the expected schema of the test
ExpectedSchema ==
    [tables |-> <<
        [name |-> "Pixels",
         columns |-> <<
            [name |-> "id", datatype |-> "number", constraint |-> "primary",
             isRequired |-> TRUE, foreignKey |-> Null],
            [name |-> "x", datatype |-> "number", constraint |-> "none",
             isRequired |-> FALSE, foreignKey |-> Null],
            [name |-> "y", datatype |-> "number", constraint |-> "none",
             isRequired |-> FALSE, foreignKey |-> Null],
            [name |-> "color", datatype |-> "string", constraint |-> "none",
             isRequired |-> FALSE, foreignKey |-> Null] >>] >>]

\* schema() has returned a schema description
SchemaReturned == pc = "done" /\ result.op = "schema" /\ result.status = "fulfilled"

----------------------------------------------------------------------------
(* C14 *)

\* the number of Executor calls of a schema() call that runs to its end
AllCalls == 1 + 2 * Len(catalog)

\* C14: when an introspection call fails, schema() fails with that failure
\* and makes no further call; a schema description is returned only when every
\* call succeeded, so never a partial one.
C14_FailurePropagates ==
    /\ (pc = "failed") =>
          /\ result = settled("schema", Failure)
          /\ ~ENABLED NextSchema
    /\ (result.op = "schema" /\ result.status = "fulfilled") =>
          /\ Len(executed) = AllCalls
          /\ Len(result.value.tables) = Len(catalog)
    /\ (result.op = "schema" /\ result.status = "rejected") => pc = "failed"

C14_Witness ==
    /\ pc = "failed"
    /\ result.status = "rejected"
    /\ Len(schema.tables) = 1
    /\ Len(executed) = 4

----------------------------------------------------------------------------
(* C15 *)

\* C15: a condition does not change once it was returned: the params of the
\* condition inArray(column, values) returned stay the values passed at the
\* call, whatever the caller does to its array afterwards.
C15_ConditionImmutable ==
    (condIn.fn = "inArray") => cond = inArray(condIn.column, condIn.operand)

----------------------------------------------------------------------------
(* C16 *)

\* the step is a call of the clause method m that returned
ClauseStep(m) ==
    /\ Len(calls) >= 1
    /\ Len(calls') = Len(calls) + 1
    /\ calls'[Len(calls')].m = m
    /\ result'.status = "returned"

\* the condition passed by the call of the step
StepCond == calls'[Len(calls')]

\* C16: where(c) appends WHERE and c.sql when no where or orWhere was called
\* before on the statement and AND and c.sql otherwise; orWhere(c) appends
\* WHERE and c.sql when none was called before and OR and c.sql otherwise; the
\* values of c are appended to params in order and nothing else is added to
\* the text.
C16_WhereChaining ==
    [][/\ ClauseStep("where") =>
            /\ query' = query
                  \o (IF CallsOf({"where", "orWhere"}) = {} THEN " WHERE " ELSE " AND ")
                  \o StepCond.a
            /\ params' = params \o StepCond.v
       /\ ClauseStep("orWhere") =>
            /\ query' = query
                  \o (IF CallsOf({"where", "orWhere"}) = {} THEN " WHERE " ELSE " OR ")
                  \o StepCond.a
            /\ params' = params \o StepCond.v]_vars

----------------------------------------------------------------------------
(* C17 *)

\* a is a prefix of b (two texts or two sequences)
IsPrefix(a, b) == Len(a) <= Len(b) /\ SubSeq(b, 1, Len(a)) = a

ClauseMethods ==
    {"from", "where", "orWhere", "orderBy", "limit", "offset", "join", "leftJoin",
     "values", "set"}

\* C17: every clause call that returns, on every kind of builder, a repeated
\* call of the same clause included, leaves the query before the call a prefix
\* of the query after it and the params before a prefix of the params after,
\* and returns the builder.
C17_AppendOnly ==
    [][\A m \in ClauseMethods :
          ClauseStep(m) =>
             /\ IsPrefix(query, query')
             /\ IsPrefix(params, params')
             /\ result'.value = This]_vars

----------------------------------------------------------------------------
(* C18 *)

\* C18 as stated: an Executor call is made only by an execution operation and
\* carries the query and params of the builder as they are at that operation.
C18_CallCarriesQuery ==
    [][(executed' # executed) =>
          /\ invoked' = invoked + 1
          /\ executed' = Append(executed, sqlCall(query, params))]_vars

\* C18 as amended: an entry point or a clause call makes no Executor call; an
\* Executor call is made only by an execution operation and carries the
\* params of the builder and, for then, catch, finally and first, its query as
\* they are at that operation; count() carries the counting text it derives
\* from that query.
C18_OnlyExecutionCalls ==
    [][/\ (calls' # calls) => executed' = executed
       /\ (executed' # executed) =>
             /\ invoked' = invoked + 1
             /\ calls' = calls
             /\ result'.op \in ExecutionOps
             /\ executed' = Append(executed,
                                   sqlCall(IF result'.op = "count"
                                           THEN countQueryOf(query) ELSE query,
                                           params))]_vars

C18_Witness ==
    /\ result.op = "count"
    /\ Len(calls) = 3
    /\ Len(executed) = 1
    /\ LastExecuted.query # query
    /\ LastExecuted.params = params
    /\ params # <<>>

----------------------------------------------------------------------------
(* C19 *)

\* the statements of a schema() call that runs to its end, in order
RECURSIVE C19_TableCalls(_)
C19_TableCalls(cat) ==
    IF cat = <<>> THEN <<>>
    ELSE << sqlCall("PRAGMA table_info(\"" \o Head(cat).name \o "\")", <<>>),
            sqlCall("PRAGMA foreign_key_list(\"" \o Head(cat).name \o "\")", <<>>) >>
         \o C19_TableCalls(Tail(cat))

C19_Calls == <<sqlCall(TablesQuery, <<>>)>> \o C19_TableCalls(catalog)

\* the foreign key C19 expects for the column called n
C19_ForeignKey(n, fks) ==
    IF \A k \in 1..Len(fks) : fks[k].from # n THEN Null
    ELSE LET k == CHOOSE a \in 1..Len(fks) :
                     /\ fks[a].from = n
                     /\ \A b \in 1..(a - 1) : fks[b].from # n
         IN  [tableName |-> fks[k].table, columnName |-> fks[k].to]

\* C19: the calls of schema() are, one after the other, the table list and
\* then for each table in catalog order its column statement followed by its
\* foreign key statement, 1 + 2T calls for T tables; the schema returned has
\* the tables in catalog order, the columns of each in the order of the column
\* rows, and for each column the foreign key of the first foreign key row
\* whose source column is the column, or null.
C19_IntrospectionOrder ==
    /\ IsPrefix(executed, C19_Calls)
    /\ SchemaReturned =>
          /\ executed = C19_Calls
          /\ Len(executed) = 1 + 2 * Len(catalog)
          /\ Len(result.value.tables) = Len(catalog)
          /\ \A t \in 1..Len(catalog) :
                LET entry == catalog[t]
                    d == result.value.tables[t]
                IN  /\ d.name = entry.name
                    /\ Len(d.columns) = Len(entry.columns)
                    /\ \A c \in 1..Len(entry.columns) :
                          /\ d.columns[c].name = entry.columns[c].name
                          /\ d.columns[c].foreignKey =
                                C19_ForeignKey(entry.columns[c].name, entry.foreignKeys)

C19_Witness ==
    /\ SchemaReturned
    /\ catalog = <<Tags, Pixels>>
    /\ Len(executed) = 5
    /\ result.value.tables[1].columns[2].foreignKey
          = [tableName |-> "Pixels", columnName |-> "id"]

----------------------------------------------------------------------------
(* C20 *)

\* C20: an execution operation leaves query and params of the builder as they
\* were, whether the Executor succeeds or fails, so the next execution
\* operation hands the Executor the same params and, count apart, the same
\* text; a call on one builder instance leaves query and params of the other
\* instance as they were.
C20_ExecutionReadsOnly ==
    [][/\ (invoked' = invoked + 1) =>
             /\ query' = query /\ params' = params
             /\ executed'[Len(executed')].params = params
             /\ (result'.op # "count") => executed'[Len(executed')].query = query
       /\ (calls' # calls \/ invoked' # invoked) => other' = other
       /\ (other' # other) => (query' = query /\ params' = params)]_vars

C20_Witness ==
    /\ invoked = 1
    /\ result.op \in Thenables
    /\ ~result.received.ok
    /\ Len(executed) = 1
    /\ executed[1] = sqlCall(query, params)
    /\ other.params # <<>>
    /\ other.query # query

=============================================================================
